---- MODULE Spec2Model ----
(***************************************************************************)
(* Verification model of archive-duplicate-finder (Go).                    *)
(*                                                                         *)
(* The module holds several independent state machines, one per component *)
(* of the program.  Each has its own specification; the variables of the  *)
(* other components stay at their initial value under it.                 *)
(*                                                                         *)
(*   SpecVisual   visual.ProcessVisualHashes: the pool of hashing workers, *)
(*                together with the dashboard's GET /api/preview handler   *)
(*                and its extraction semaphore.                            *)
(*   SpecThrottle the same pool over a cold cache, with preview requests.  *)
(*   SpecRar      the RAR reader functions of package archive.             *)
(*   SpecCleanup  cmd/finder: the cleanup of one same-size group.          *)
(*   SpecServer   package web: the dashboard's handlers and analyses.      *)
(*   SpecNames    similarity.FindSimilarNames.                             *)
(*   SpecCalls    single calls of the library functions: preview selection *)
(*                in an archive, the preview table of the cache, the scan  *)
(*                fingerprint, visual clustering and the name score.       *)
(***************************************************************************)
EXTENDS Integers, Sequences, FiniteSets, Bags, TLC

(***************************************************************************)
(* Bounds of the model and constants of the program.                       *)
(***************************************************************************)
\* number of files handed to one visual-hashing pass
NumVisualFiles == 5
\* number of dashboard preview requests that are at the extraction step at once
MaxPreviewReqs == 5
\* workerCount := 4 in ProcessVisualHashes
workerCount == 4
\* previewSem: make(chan struct{}, 4) in NewServer
PreviewSemCap == 4
\* number of entries a RAR archive of the model holds at most
MaxRarEntries == 4
\* number of files in the same-size group the command-line cleanup walks
NumGroupFiles == 3
\* modification times and entry counts of the group's files range over 0..MaxAttr
MaxAttr == 2

\* number of archives in the directory the dashboard server scans
NumServerFiles == 3
\* number of background analyses (goroutines) of the server alive at once
MaxJobs == 2
\* number of distinct groups the ignore table holds
MaxIgnored == 1
\* number of archives deleted through the dashboard
MaxDeletes == 1
\* Hamming distance up to which two perceptual hashes are one visual group
hammingThreshold == 8
\* number of files handed to FindSimilarNames
NumNameFiles == 3
\* largest value of runtime.NumCPU()
MaxCPUs == 3
\* capacity of pairsChan: 1000 in make(chan SimilarPair, 1000), scaled to the
\* file list above so that the channel does fill and a worker does wait
pairsChanCap == 1
\* number of entries an archive handed to preview selection holds at most
MaxEntries == 2
\* archive paths, internal paths and modification tags of the preview table
\* of the cache range over 1..MaxCacheKey
MaxCacheKey == 2
\* number of rows written to the preview table in one behaviour
MaxPuts == 3
\* number of scanned files handed to CalculateFingerprint at most
MaxScanFiles == 3
\* number of characters of a file name handed to the name score at most
MaxNameLen == 4
MaxTriangles == 2

VARIABLES
    \* ---- visual.ProcessVisualHashes ----
    sent,           \* number of files the producer loop has put on jobs
    jobs,           \* the buffered channel jobs: sequence of file indices
    jobsClosed,     \* close(jobs) has run
    stage,          \* per file: where the worker that received it stands in the loop body
    exited,         \* number of workers whose range loop ended normally
    fval,           \* per file: the progress value its worker computed under mu
    vmu,            \* the function-local mutex mu: 0 free, else the file of the holding worker
    processed,      \* the counter processed
    progressLog,    \* the values handed to onProgress, in call order
    hashCache,      \* files with a row in the visual-hash table of the cache
    passReturned,   \* wg.Wait() has returned
    \* ---- GET /api/preview ----
    previewWaiting, \* handlers blocked on s.previewSem <- struct{}{}
    previewSem,     \* tokens in s.previewSem: extractions of the dashboard in flight
    \* ---- archive: the RAR readers ----
    rarOp,          \* the reader function being run ("none" between calls)
    rarPc,          \* its position: "idle", "open", "next", "read", "returned"
    rarSeen,        \* headers reader.Next() has returned so far
    rarKept,        \* entries kept so far (listed, extracted, or the largest image)
    rarResult,      \* what the caller gets: "none", "ok", "error", "panic"
    \* ---- cmd/finder: automatic and interactive cleanup of one same-size group ----
    cfgMode,        \* config: "off", "interactive", "oldest" or "contents" (--delete / --interactive)
    cfgAuto,        \* config.AutoDelete (--yes)
    cfgTrash,       \* config.TrashPath != ""
    cfgRef,         \* config.LeaveRef
    modTime,        \* per file of the group: ModTime
    fileCount,      \* per file of the group: FileCount
    mvName,         \* per file: isMultiVolumePart(Name) of cmd/finder holds
    similar,        \* pairs <<i, j>>, i < j, whose name similarity reaches the threshold
    exists,         \* per file: it is still at its original path
    inTrash,        \* per file: its content has been moved into the trash folder
    refNote,        \* per file: the file named "Original kept" in <path>.duplicate.txt (0: no note)
    ci, cj,         \* the loop indices i and j of analyzeSameSizeDifferentName
    lastTarget,     \* target of the latest performFileAction call (0: none yet)
    lastPreserved,  \* preserved of the latest performFileAction call (0: none yet)
    \* ---- package web: the dashboard server ----
    srvCfg,         \* cache: s.cache != nil
    srvReport,      \* *s.report, or NilReport when s.report is nil
    srvAllFiles,    \* s.allFiles
    srvDisk,        \* the archives at their path in the scanned directory
    srvIgnored,     \* the ignored-group table of the cache
    srvHashes,      \* the archives with a row in the visual-hash table of the cache
    srvJobs,        \* the goroutines of performFullScan, RunStep3 and RunVisual
    srvReading,     \* the GET /api/all-files handler: "idle", "copy" or "walk"
    srvFault,       \* "none", or the code that dereferenced a nil s.report
    \* ---- similarity.FindSimilarNames ----
    nmWorkers,      \* numWorkers = runtime.NumCPU()
    nmThreshold,    \* threshold
    nmSize,         \* per file: Size
    nmLen,          \* per file: rune count of its normalised name
    nmScore,        \* per pair: CalculateNormalizedSimilarity of the two normalised names
    nmPos,          \* per worker: the pair <<i, j>> its loops stand at (<<0, 0>>: done)
    nmChan,         \* pairsChan
    nmClosed,       \* close(pairsChan) has run
    nmPairs,        \* pairs, the slice the collector appends to
    nmReturned,     \* FindSimilarNames has returned pairs
    \* ---- single calls of library functions ----
    callFn,         \* the function that was called ("none": no call yet)
    callArg,        \* its arguments
    callRet,        \* what it returned
    previewCache,   \* the table preview_cache: path -> row (internal_path, mod_time)
    previewPuts     \* the rows INSERT OR REPLACE has written, in order

visualVars == <<sent, jobs, jobsClosed, stage, exited, fval, vmu, processed,
                progressLog, hashCache, passReturned>>
previewVars == <<previewWaiting, previewSem>>

rarVars == <<rarOp, rarPc, rarSeen, rarKept, rarResult>>

cleanupCfg == <<cfgMode, cfgAuto, cfgTrash, cfgRef, modTime, fileCount, mvName, similar>>
cleanupVars == <<cleanupCfg, exists, inTrash, refNote, ci, cj, lastTarget, lastPreserved>>

serverVars == <<srvCfg, srvReport, srvAllFiles, srvDisk, srvIgnored,
                srvHashes, srvJobs, srvReading, srvFault>>

namesVars == <<nmWorkers, nmThreshold, nmSize, nmLen, nmScore, nmPos, nmChan, nmClosed,
               nmPairs, nmReturned>>

callVars == <<callFn, callArg, callRet, previewCache, previewPuts>>

vars == <<visualVars, previewVars, rarVars, cleanupVars, serverVars, namesVars, callVars>>

\* the variables of the other components, which an action of one component leaves alone
outsideVisual == <<rarVars, cleanupVars, serverVars, namesVars, callVars>>
outsideRar == <<visualVars, previewVars, cleanupVars, serverVars, namesVars, callVars>>
outsideCleanup == <<visualVars, previewVars, rarVars, serverVars, namesVars, callVars>>
outsideServer == <<visualVars, previewVars, rarVars, cleanupVars, namesVars, callVars>>
outsideNames == <<visualVars, previewVars, rarVars, cleanupVars, serverVars, callVars>>
outsideCalls == <<visualVars, previewVars, rarVars, cleanupVars, serverVars, namesVars>>

VisualFiles == 1..NumVisualFiles

(***************************************************************************)
(* visual.ProcessVisualHashes                                              *)
(*                                                                         *)
(* The four worker goroutines run the same closure and carry no identity, *)
(* so the pool is kept as the stage of every file a worker has received   *)
(* plus the number of workers that have left the loop.                    *)
(*   stage[f]: "new"      not yet received by a worker                    *)
(*             "extract"  FindPreviewInArchive / GeneratePHash running    *)
(*             "lock"     waiting at mu.Lock()                            *)
(*             "call"     holding mu, about to call onProgress            *)
(*             "done"     iteration finished                              *)
(*             "panicked" the worker panicked here and was recovered      *)
(***************************************************************************)

\* files a worker is working on right now
InFlight == {f \in VisualFiles : stage[f] \in {"extract", "lock", "call"}}
\* workers whose goroutine ended in the deferred recover()
Recovered == {f \in VisualFiles : stage[f] = "panicked"}
\* workers blocked in `for f := range jobs`
IdleWorkers == workerCount - exited - Cardinality(Recovered) - Cardinality(InFlight)

\* float64(processed) / float64(total) * 100, kept as the exact numerator
\* over the fixed denominator total
ProgressValue(p, total) == p * 100

\* a pool whose workers skip mu.Lock(): the counter update and the callback of
\* two workers interleave
MuAvailableNoLock == TRUE

\* mu.Lock() blocks while another worker holds mu: processed++ and the call
\* of onProgress are made between mu.Lock() and mu.Unlock()
MuAvailable == vmu = 0

VisualInit ==
    /\ sent = 0
    /\ jobs = <<>>
    /\ jobsClosed = FALSE
    /\ stage = [f \in VisualFiles |-> "new"]
    /\ exited = 0
    /\ fval = [f \in VisualFiles |-> 0]
    /\ vmu = 0
    /\ processed = 0
    /\ progressLog = <<>>
    /\ hashCache \in SUBSET VisualFiles
    /\ passReturned = FALSE

PreviewInit ==
    /\ previewWaiting = 0
    /\ previewSem = 0

\* for _, f := range files { jobs <- f }: the buffer holds total entries, so
\* the send never blocks
ProducerSend ==
    /\ sent < NumVisualFiles
    /\ sent' = sent + 1
    /\ jobs' = Append(jobs, sent + 1)
    /\ UNCHANGED <<jobsClosed, stage, exited, fval, vmu, processed,
                   progressLog, hashCache, passReturned, previewVars, outsideVisual>>

\* close(jobs)
ProducerClose ==
    /\ sent = NumVisualFiles
    /\ ~jobsClosed
    /\ jobsClosed' = TRUE
    /\ UNCHANGED <<sent, jobs, stage, exited, fval, vmu, processed,
                   progressLog, hashCache, passReturned, previewVars, outsideVisual>>

\* for f := range jobs: an idle worker receives the next file; a cache hit
\* goes straight to the progress update, anything else starts the extraction
WorkerReceive ==
    /\ IdleWorkers > 0
    /\ jobs # <<>>
    /\ jobs' = Tail(jobs)
    /\ stage' = [stage EXCEPT ![Head(jobs)] =
                    IF Head(jobs) \in hashCache THEN "lock" ELSE "extract"]
    /\ UNCHANGED <<sent, jobsClosed, exited, fval, vmu, processed, progressLog,
                   hashCache, passReturned, previewVars, outsideVisual>>

\* the range loop ends on the closed, drained channel; the deferred wg.Done runs
WorkerExit ==
    /\ IdleWorkers > 0
    /\ jobs = <<>>
    /\ jobsClosed
    /\ exited' = exited + 1
    /\ UNCHANGED <<sent, jobs, jobsClosed, stage, fval, vmu, processed,
                   progressLog, hashCache, passReturned, previewVars, outsideVisual>>

\* archive.FindPreviewInArchive and archive.GeneratePHash return: with a hash
\* (ok) cache.PutVisualHash stores it, with an error the file is skipped
WorkerExtracted(f, ok) ==
    /\ stage[f] = "extract"
    /\ hashCache' = IF ok THEN hashCache \cup {f} ELSE hashCache
    /\ stage' = [stage EXCEPT ![f] = "lock"]
    /\ UNCHANGED <<sent, jobs, jobsClosed, exited, fval, vmu, processed,
                   progressLog, passReturned, previewVars, outsideVisual>>

\* the extraction panics: the recover() deferred at the top of the goroutine
\* catches it, the goroutine's body is over and wg.Done runs
WorkerPanic(f) ==
    /\ stage[f] = "extract"
    /\ stage' = [stage EXCEPT ![f] = "panicked"]
    /\ UNCHANGED <<sent, jobs, jobsClosed, exited, fval, vmu, processed,
                   progressLog, hashCache, passReturned, previewVars, outsideVisual>>

\* mu.Lock(); processed++; the argument of onProgress is evaluated
WorkerLock(f) ==
    /\ stage[f] = "lock"
    /\ MuAvailable
    /\ vmu' = f
    /\ processed' = processed + 1
    /\ fval' = [fval EXCEPT ![f] = ProgressValue(processed + 1, NumVisualFiles)]
    /\ stage' = [stage EXCEPT ![f] = "call"]
    /\ UNCHANGED <<sent, jobs, jobsClosed, exited, progressLog, hashCache,
                   passReturned, previewVars, outsideVisual>>

\* onProgress(...) runs; mu.Unlock(); the iteration is over
WorkerReport(f) ==
    /\ stage[f] = "call"
    /\ progressLog' = Append(progressLog, fval[f])
    /\ vmu' = IF vmu = f THEN 0 ELSE vmu
    /\ stage' = [stage EXCEPT ![f] = "done"]
    /\ UNCHANGED <<sent, jobs, jobsClosed, exited, fval, processed, hashCache,
                   passReturned, previewVars, outsideVisual>>

\* wg.Wait() returns once every worker has called wg.Done; jobs is closed
\* before the wait
PassReturn ==
    /\ ~passReturned
    /\ jobsClosed
    /\ exited + Cardinality(Recovered) = workerCount
    /\ passReturned' = TRUE
    /\ UNCHANGED <<sent, jobs, jobsClosed, stage, exited, fval, vmu, processed,
                   progressLog, hashCache, previewVars, outsideVisual>>

(***************************************************************************)
(* GET /api/preview: extraction of one entry under the semaphore           *)
(***************************************************************************)

\* a request whose preview is not in the disk cache reaches s.previewSem <- struct{}{}
PreviewArrive ==
    /\ previewWaiting + previewSem < MaxPreviewReqs
    /\ previewWaiting' = previewWaiting + 1
    /\ UNCHANGED <<previewSem, visualVars, outsideVisual>>

\* the send on previewSem succeeds while the channel holds fewer than 4 tokens
PreviewAcquire ==
    /\ previewWaiting > 0
    /\ previewSem < PreviewSemCap
    /\ previewWaiting' = previewWaiting - 1
    /\ previewSem' = previewSem + 1
    /\ UNCHANGED <<visualVars, outsideVisual>>

\* archive.GetFileFromArchive returns (data or error); <-s.previewSem
PreviewRelease ==
    /\ previewSem > 0
    /\ previewSem' = previewSem - 1
    /\ UNCHANGED <<previewWaiting, visualVars, outsideVisual>>

(***************************************************************************)
(* archive: the RAR readers                                                *)
(*                                                                         *)
(* One call of a reader function at a time: open, then a loop of          *)
(* reader.Next() and io.ReadAll(reader).  The archive on disk is the       *)
(* input: every library call draws its outcome (a value, an error or a     *)
(* panic of the decoder) from the outcomes rardecode can produce.          *)
(***************************************************************************)
RarOps == {"listFilesRAR", "extractRAR", "getFileRAR", "findLargestImageRAR"}

\* the functions that open with `defer func() { if r := recover() ... err = ... }()`
RarRecovers(op) == op \in {"listFilesRAR", "extractRAR", "findLargestImageRAR"}

\* a panic of the decoder inside op: turned into an error by the deferred
\* recover, or unwinding into the caller
RarPanicResult(op) == IF RarRecovers(op) THEN "error" ELSE "panic"

\* what the function returns when reader.Next() reports io.EOF
RarEofResult(op, kept) ==
    CASE op = "listFilesRAR" -> "ok"
      [] op = "extractRAR" -> "ok"
      [] op = "getFileRAR" -> "error"
      [] op = "findLargestImageRAR" -> IF kept > 0 THEN "ok" ELSE "error"

RarInit ==
    /\ rarOp = "none"
    /\ rarPc = "idle"
    /\ rarSeen = 0
    /\ rarKept = 0
    /\ rarResult = "none"

\* the caller invokes one of the reader functions on an archive path
RarCall(op) ==
    /\ rarPc \in {"idle", "returned"}
    /\ rarResult # "panic"
    /\ rarOp' = op
    /\ rarPc' = "open"
    /\ rarSeen' = 0
    /\ rarKept' = 0
    /\ rarResult' = "none"
    /\ UNCHANGED outsideRar

\* rardecode.OpenReader(archivePath): a reader, or an error that is returned
RarOpen(opened) ==
    /\ rarPc = "open"
    /\ IF opened
       THEN rarPc' = "next" /\ rarResult' = rarResult
       ELSE rarPc' = "returned" /\ rarResult' = "error"
    /\ UNCHANGED <<rarOp, rarSeen, rarKept, outsideRar>>

\* reader.Next() returns a header; wanted says whether the function reads the
\* entry's data (extractRAR: not a directory; getFileRAR: the name matches;
\* findLargestImageRAR: an image larger than the largest so far), and
\* listFilesRAR appends every non-directory header without reading
RarNextHeader(wanted) ==
    /\ rarPc = "next"
    /\ rarSeen < MaxRarEntries
    /\ rarSeen' = rarSeen + 1
    /\ IF rarOp = "listFilesRAR"
       THEN rarPc' = "next" /\ rarKept' = IF wanted THEN rarKept + 1 ELSE rarKept
       ELSE rarPc' = (IF wanted THEN "read" ELSE "next") /\ rarKept' = rarKept
    /\ UNCHANGED <<rarOp, rarResult, outsideRar>>

\* reader.Next() returns io.EOF: the loop ends and the function returns
RarNextEof ==
    /\ rarPc = "next"
    /\ rarPc' = "returned"
    /\ rarResult' = RarEofResult(rarOp, rarKept)
    /\ UNCHANGED <<rarOp, rarSeen, rarKept, outsideRar>>

\* reader.Next() returns another error (corrupt header): return nil, err
RarNextError ==
    /\ rarPc = "next"
    /\ rarPc' = "returned"
    /\ rarResult' = "error"
    /\ UNCHANGED <<rarOp, rarSeen, rarKept, outsideRar>>

\* io.ReadAll(reader) returns the data, or an error (good = FALSE)
RarReadAll(good) ==
    /\ rarPc = "read"
    /\ CASE rarOp = "extractRAR" ->
              IF good
              THEN rarPc' = "next" /\ rarKept' = rarKept + 1 /\ rarResult' = rarResult
              ELSE rarPc' = "returned" /\ rarKept' = rarKept /\ rarResult' = "error"
         [] rarOp = "getFileRAR" ->
              /\ rarPc' = "returned"
              /\ rarKept' = IF good THEN 1 ELSE 0
              /\ rarResult' = IF good THEN "ok" ELSE "error"
         [] OTHER ->
              /\ rarPc' = "next"
              /\ rarKept' = IF good THEN rarKept + 1 ELSE rarKept
              /\ rarResult' = rarResult
    /\ UNCHANGED <<rarOp, rarSeen, outsideRar>>

\* the decoder panics inside reader.Next() or io.ReadAll(reader)
RarDecoderPanic ==
    /\ rarPc \in {"next", "read"}
    /\ rarPc' = "returned"
    /\ rarResult' = RarPanicResult(rarOp)
    /\ UNCHANGED <<rarOp, rarSeen, rarKept, outsideRar>>

RarNext ==
    \/ \E op \in RarOps : RarCall(op)
    \/ \E opened \in BOOLEAN : RarOpen(opened)
    \/ \E wanted \in BOOLEAN : RarNextHeader(wanted)
    \/ RarNextEof
    \/ RarNextError
    \/ \E good \in BOOLEAN : RarReadAll(good)
    \/ RarDecoderPanic

(***************************************************************************)
(* cmd/finder: analyzeSameSizeDifferentName, handleCleanup and             *)
(* performFileAction on one group of files of identical size.              *)
(*                                                                         *)
(* The group is the slice group[0..n-1], here the files 1..NumGroupFiles   *)
(* in slice order.  The nested loop visits the pairs i < j in order and    *)
(* runs handleCleanup on every pair that is similar enough.                *)
(***************************************************************************)
GroupFiles == 1..NumGroupFiles
GroupPairs == {p \in GroupFiles \X GroupFiles : p[1] < p[2]}

\* file.IsMultiVolumePart() of both files: parts of one set (both are parts,
\* same base name, different part tokens).  Every part of the model's group
\* belongs to the one split archive of the group.
SameMultiVolumeSet(f1, f2) == mvName[f1] /\ mvName[f2]

\* handleCleanup's guard: isMultiVolumePart(f1.Name) || isMultiVolumePart(f2.Name)
CleanupSkipsParts(f1, f2) == mvName[f1] \/ mvName[f2]

\* the candidate handleCleanup picks in the automatic modes (0: no clear candidate)
ToDelete(f1, f2) ==
    CASE cfgMode = "oldest" ->
            IF modTime[f1] < modTime[f2] THEN f1
            ELSE IF modTime[f2] < modTime[f1] THEN f2
            ELSE 0
      [] cfgMode = "contents" ->
            \* the sizes of the two files are equal in a same-size group, so
            \* the fallback on Size never picks a candidate
            IF fileCount[f1] > 0 /\ fileCount[f2] > 0
            THEN IF fileCount[f1] < fileCount[f2] THEN f1
                 ELSE IF fileCount[f2] < fileCount[f1] THEN f2
                 ELSE 0
            ELSE 0
      [] OTHER -> 0

\* the pair the loops stand at is handed to handleCleanup
PairReachesCleanup ==
    /\ ci # 0
    /\ ~SameMultiVolumeSet(ci, cj)
    /\ <<ci, cj>> \in similar
    /\ cfgMode # "off"

\* j++, and at the end of the inner loop i++ (ci = 0: both loops are over)
AdvancePair ==
    IF cj < NumGroupFiles
    THEN ci' = ci /\ cj' = cj + 1
    ELSE IF ci + 1 < NumGroupFiles
         THEN ci' = ci + 1 /\ cj' = ci + 2
         ELSE ci' = 0 /\ cj' = 0

\* currentGroup.Files: the outer loop appends group[i] when iteration i begins;
\* once both loops are over the group, with every file of the slice, is
\* appended to the results that go into the report
CurrentGroupFiles == IF ci = 0 THEN GroupFiles ELSE 1..ci

CleanupInit ==
    /\ cfgMode \in {"off", "interactive", "oldest", "contents"}
    /\ cfgAuto \in BOOLEAN
    /\ cfgTrash \in BOOLEAN
    /\ cfgRef \in BOOLEAN
    \* the fields the chosen mode never reads are held fixed
    /\ cfgMode \in {"off", "interactive"} => cfgAuto = FALSE
    /\ modTime \in [GroupFiles -> 0..MaxAttr]
    /\ cfgMode # "oldest" => modTime = [f \in GroupFiles |-> 0]
    /\ fileCount \in [GroupFiles -> 0..MaxAttr]
    /\ cfgMode # "contents" => fileCount = [f \in GroupFiles |-> 0]
    /\ mvName \in [GroupFiles -> BOOLEAN]
    /\ similar \in SUBSET GroupPairs
    /\ exists = [f \in GroupFiles |-> TRUE]
    /\ inTrash = [f \in GroupFiles |-> FALSE]
    /\ refNote = [f \in GroupFiles |-> 0]
    /\ ci = 1
    /\ cj = 2
    /\ lastTarget = 0
    /\ lastPreserved = 0

\* performFileAction(target, preserved, config): move to the trash folder, or
\* delete; renamed and removed are the outcomes of os.Rename and os.Remove on
\* a target that exists (both fail on a target that is gone)
PerformFileAction(target, preserved, renamed, removed) ==
    /\ lastTarget' = target
    /\ lastPreserved' = preserved
    /\ IF cfgTrash /\ exists[target] /\ renamed
       THEN \* os.Rename succeeded
            /\ exists' = [exists EXCEPT ![target] = FALSE]
            /\ inTrash' = [inTrash EXCEPT ![target] = TRUE]
       ELSE \* no trash folder, or the rename failed: deleteFile(target.Path)
            /\ exists' = [exists EXCEPT ![target] = exists[target] /\ ~removed]
            /\ inTrash' = inTrash
    /\ refNote' = IF cfgRef THEN [refNote EXCEPT ![target] = preserved] ELSE refNote

\* the pair is not handed to handleCleanup: parts of one multi-volume set,
\* names not similar enough, or no cleanup mode
ComparePairOnly ==
    /\ ci # 0
    /\ ~PairReachesCleanup
    /\ AdvancePair
    /\ UNCHANGED <<cleanupCfg, exists, inTrash, refNote, lastTarget, lastPreserved,
                   outsideCleanup>>

\* handleCleanup returns without touching a file: a multi-volume part, "keep
\* both" or an invalid choice, no clear candidate, or the prompt answered no
CleanupKeepsBoth(choice, confirmed) ==
    /\ PairReachesCleanup
    /\ \/ CleanupSkipsParts(ci, cj)
       \/ cfgMode = "interactive" /\ choice \notin {1, 2}
       \/ cfgMode # "interactive" /\ ToDelete(ci, cj) = 0
       \/ cfgMode # "interactive" /\ ~cfgAuto /\ ~confirmed
    /\ AdvancePair
    /\ UNCHANGED <<cleanupCfg, exists, inTrash, refNote, lastTarget, lastPreserved,
                   outsideCleanup>>

\* handleCleanup in interactive mode: the operator picks the file to delete
CleanupInteractive(choice, renamed, removed) ==
    /\ PairReachesCleanup
    /\ ~CleanupSkipsParts(ci, cj)
    /\ cfgMode = "interactive"
    /\ choice \in {1, 2}
    /\ IF choice = 1
       THEN PerformFileAction(ci, cj, renamed, removed)
       ELSE PerformFileAction(cj, ci, renamed, removed)
    /\ AdvancePair
    /\ UNCHANGED <<cleanupCfg, outsideCleanup>>

\* handleCleanup in the modes "oldest" and "contents": the candidate is
\* removed, at once with --yes, else after the prompt was answered y
CleanupAutomatic(confirmed, renamed, removed) ==
    /\ PairReachesCleanup
    /\ ~CleanupSkipsParts(ci, cj)
    /\ cfgMode \in {"oldest", "contents"}
    /\ ToDelete(ci, cj) # 0
    /\ cfgAuto \/ confirmed
    /\ PerformFileAction(ToDelete(ci, cj),
                         IF ToDelete(ci, cj) = ci THEN cj ELSE ci, renamed, removed)
    /\ AdvancePair
    /\ UNCHANGED <<cleanupCfg, outsideCleanup>>

CleanupNext ==
    \/ ComparePairOnly
    \/ \E choice \in 0..2, confirmed \in BOOLEAN : CleanupKeepsBoth(choice, confirmed)
    \/ \E choice \in 1..2, renamed, removed \in BOOLEAN :
           CleanupInteractive(choice, renamed, removed)
    \/ \E confirmed, renamed, removed \in BOOLEAN :
           CleanupAutomatic(confirmed, renamed, removed)

(***************************************************************************)
(* package web: the dashboard server                                       *)
(*                                                                         *)
(* The scanned directory holds the archives 1..NumServerFiles.  A section  *)
(* of a handler between s.mu.Lock() and s.mu.Unlock() is one step; the     *)
(* background analyses are sequences of such steps, and the handler of     *)
(* GET /api/all-files, which takes no lock, is two steps.  A nil pointer   *)
(* dereference ends the process: srvFault names the code that faulted,     *)
(* the goroutines and the memory of the process are gone and only what is  *)
(* on disk (the directory and the cache) stays.  The background goroutines *)
(* are a bag of records.  A list of groups is the set of its groups, a     *)
(* group the set of its member files; of the report the model keeps the    *)
(* status, the file count and the three lists of groups.                   *)
(***************************************************************************)
SrvFiles == 1..NumServerFiles

\* the archives of the directory: "Model.zip" and "Model.rar" of one size,
\* then the parts "Set.part1.rar", "Set.part2.rar", ... of one split archive
SrvIsPart(f) == f >= 3
SrvNameKey(f) == IF SrvIsPart(f) THEN "set" ELSE "model"
SrvSize(f) == IF SrvIsPart(f) THEN 700 ELSE 100
\* the perceptual hash of the preview image of each archive
SrvPHash(f) == CASE f = 1 -> 0
                 [] f = 2 -> 3
                 [] OTHER -> 1023 + (f - 3) * 4096

NilReport ==
    [nil |-> TRUE, status |-> "", total |-> 0,
     size |-> {}, similar |-> {}, visual |-> {}]

\* &reporter.Report{Status: status}
NewReport(status) == [NilReport EXCEPT !.nil = FALSE, !.status = status]

\* a goroutine of performFullScan, RunStep3 or RunVisual: the function, the
\* position in it, the list ScanDirectory returned and, for RunVisual, the
\* files the hashing pass has not processed yet
Job(kind, pc, snap, left) == [kind |-> kind, pc |-> pc, snap |-> snap, left |-> left]

\* scanner.GroupBySize, and the loop that keeps the groups of two or more files
SizeGroupsOf(files) ==
    {g \in {{f \in files : SrvSize(f) = SrvSize(h)} : h \in files} : Cardinality(g) >= 2}

\* similarity.FindSimilarGroups: buckets of equal normalised name key, without
\* the singletons and without the buckets whose members are all parts of one
\* multi-volume set
FindSimilarGroups(files) ==
    {g \in {{f \in files : SrvNameKey(f) = SrvNameKey(h)} : h \in files} :
        /\ Cardinality(g) >= 2
        /\ ~(\A f \in g : SrvIsPart(f))}

\* archive.CalculateHammingDistance: the number of differing bits
RECURSIVE CalculateHammingDistance(_, _)
CalculateHammingDistance(hash1, hash2) ==
    IF hash1 = 0 /\ hash2 = 0 THEN 0
    ELSE (IF hash1 % 2 # hash2 % 2 THEN 1 ELSE 0)
         + CalculateHammingDistance(hash1 \div 2, hash2 \div 2)

\* the files of a set in scan order (filepath.Walk visits them in name order)
RECURSIVE ScanOrder(_)
ScanOrder(files) ==
    IF files = {} THEN <<>>
    ELSE LET first == CHOOSE f \in files : \A g \in files : f <= g
         IN <<first>> \o ScanOrder(files \ {first})

\* the clustering loop of FindVisualDuplicates over the list hashes: the first
\* unvisited file seeds a group and absorbs every later unvisited file within
\* the Hamming threshold of the seed
RECURSIVE GreedyGroups(_, _)
GreedyGroups(hashes, visited) ==
    IF hashes = <<>> THEN {}
    ELSE LET seed == Head(hashes)
             near == {hashes[j] : j \in {j \in 2..Len(hashes) :
                         /\ hashes[j] \notin visited
                         /\ CalculateHammingDistance(SrvPHash(seed), SrvPHash(hashes[j]))
                                <= hammingThreshold}}
             currentGroup == {seed} \cup near
         IN IF seed \in visited
            THEN GreedyGroups(Tail(hashes), visited)
            ELSE (IF Cardinality(currentGroup) > 1 THEN {currentGroup} ELSE {})
                 \cup GreedyGroups(Tail(hashes), visited \cup currentGroup)

\* as FindVisualDuplicates, but a file without a cached hash takes part too
FindVisualDuplicatesOfAll(files, cacheOn, hashed) ==
    IF ~cacheOn \/ Cardinality(files) < 2
    THEN {}
    ELSE GreedyGroups(ScanOrder(files), {})

\* visual.FindVisualDuplicates(files, cache, threshold)
FindVisualDuplicates(files, cacheOn, hashed) ==
    IF ~cacheOn \/ Cardinality(files) < 2 \/ Cardinality(files \cap hashed) < 2
    THEN {}
    ELSE GreedyGroups(ScanOrder(files \cap hashed), {})

\* the goroutines that stand at pc of the function kind
JobsAt(kind, pc) ==
    IF srvFault = "none"
    THEN {j \in BagToSet(srvJobs) : j.kind = kind /\ j.pc = pc}
    ELSE {}

\* a new goroutine can be started
CanSpawn == srvFault = "none" /\ BagCardinality(srvJobs) < MaxJobs

\* the goroutine j has moved on and is now next
Moved(j, next) == (srvJobs (-) SetToBag({j})) (+) SetToBag({next})

\* the goroutine j has returned
Returned(j) == srvJobs (-) SetToBag({j})

\* the state of the process after a step that did not fault
Memory(report, allFiles, goroutines) ==
    /\ srvReport' = report
    /\ srvAllFiles' = allFiles
    /\ srvJobs' = goroutines
    /\ UNCHANGED <<srvReading, srvFault>>

\* a nil s.report was dereferenced by who: the process is gone
Crashed(who) ==
    /\ srvFault' = who
    /\ srvReport' = NilReport
    /\ srvAllFiles' = {}
    /\ srvJobs' = EmptyBag
    /\ srvReading' = "idle"

\* a locked section that writes through s.report
WriteReport(who, report, allFiles, goroutines) ==
    IF srvReport.nil THEN Crashed(who) ELSE Memory(report, allFiles, goroutines)

ServerInit ==
    /\ srvCfg \in [cache : BOOLEAN]
    /\ srvReport = NilReport
    /\ srvAllFiles = {}
    /\ srvDisk = SrvFiles
    /\ srvIgnored = {}
    /\ srvHashes = {}
    /\ srvJobs = EmptyBag
    /\ srvReading = "idle"
    /\ srvFault = "none"

\* POST /api/reset
Reset ==
    /\ srvFault = "none"
    /\ Memory(NilReport, {}, srvJobs)
    /\ UNCHANGED <<srvCfg, srvDisk, srvIgnored, srvHashes, outsideServer>>

\* the member lists sent with a mark-as-good request: the groups the
\* dashboard shows for the full directory
MarkRequests == SizeGroupsOf(SrvFiles) \cup FindSimilarGroups(SrvFiles)

\* POST /api/mark-as-good with the member list files; the hash of a group is
\* a digest of its sorted member paths, here the member set itself
MarkAsGood(files) ==
    /\ srvFault = "none"
    /\ files # {}
    /\ files \in srvIgnored \/ Cardinality(srvIgnored) < MaxIgnored
    /\ srvIgnored' = IF srvCfg.cache THEN srvIgnored \cup {files} ELSE srvIgnored
    /\ WriteReport("mark-as-good",
                   [srvReport EXCEPT !.similar = srvReport.similar \ {files},
                                     !.visual = srvReport.visual \ {files},
                                     !.size = srvReport.size \ {files}],
                   srvAllFiles, srvJobs)
    /\ UNCHANGED <<srvCfg, srvDisk, srvHashes, outsideServer>>

\* as WithoutFile, but a group is kept however few files remain
WithoutFileKeepsAll(groups, path) == {g \ {path} : g \in groups}

\* the groups of a list after path was taken out of each, kept while two or
\* more files remain
WithoutFile(groups, path) == {g \ {path} : g \in {h \in groups : Cardinality(h \ {path}) >= 2}}

\* POST /api/delete of path.  With a trash folder the file is renamed into it
\* and, should that fail, removed; without one it is removed.  taken: one of
\* these calls succeeded (none does on a file that is gone), so the file has
\* left its path; else the handler answers 500 before it touches the report.
Delete(path, taken) ==
    /\ srvFault = "none"
    /\ path \notin srvDisk \/ Cardinality(SrvFiles \ srvDisk) < MaxDeletes
    /\ IF ~(path \in srvDisk /\ taken)
       THEN UNCHANGED <<srvDisk, srvReport, srvAllFiles, srvJobs, srvReading, srvFault>>
       ELSE /\ srvDisk' = srvDisk \ {path}
            /\ WriteReport("delete",
                           [srvReport EXCEPT !.total = srvReport.total - 1,
                                             !.similar = WithoutFile(srvReport.similar, path),
                                             !.size = WithoutFile(srvReport.size, path)],
                           srvAllFiles, srvJobs)
    /\ UNCHANGED <<srvCfg, srvIgnored, srvHashes, outsideServer>>

\* GET /api/all-files, first half, without s.mu: len(s.allFiles) is read, and
\* with an empty list s.report.SizeGroups is walked
AllFilesBegin ==
    /\ srvFault = "none"
    /\ srvReading = "idle"
    /\ IF srvAllFiles = {} /\ srvReport.nil
       THEN Crashed("all-files")
       ELSE /\ srvReading' = IF srvAllFiles # {} THEN "copy" ELSE "walk"
            /\ UNCHANGED <<srvReport, srvAllFiles, srvJobs, srvFault>>
    /\ UNCHANGED <<srvCfg, srvDisk, srvIgnored, srvHashes, outsideServer>>

\* GET /api/all-files, second half, still without s.mu: s.allFiles is copied
\* into the response, or s.report.SimilarGroups is walked
AllFilesEnd ==
    /\ srvFault = "none"
    /\ srvReading # "idle"
    /\ IF srvReading = "walk" /\ srvReport.nil
       THEN Crashed("all-files")
       ELSE /\ srvReading' = "idle"
            /\ UNCHANGED <<srvReport, srvAllFiles, srvJobs, srvFault>>
    /\ UNCHANGED <<srvCfg, srvDisk, srvIgnored, srvHashes, outsideServer>>

\* POST /api/start-scan: refused (400) while the report says an analysis is
\* running, else go s.performFullScan(cfg) after s.mu was released
StartScan ==
    /\ CanSpawn
    /\ srvReport.nil \/ srvReport.status \notin {"analyzing", "analyzing_step3", "analyzing_visual"}
    /\ Memory(srvReport, srvAllFiles, srvJobs (+) SetToBag({Job("scan", "begin", {}, {})}))
    /\ UNCHANGED <<srvCfg, srvDisk, srvIgnored, srvHashes, outsideServer>>

\* performFullScan: a fresh report replaces s.report
ScanBegin ==
    \E j \in JobsAt("scan", "begin") :
        /\ Memory(NewReport("analyzing"), {}, Moved(j, [j EXCEPT !.pc = "walk"]))
        /\ UNCHANGED <<srvCfg, srvDisk, srvIgnored, srvHashes, outsideServer>>

\* performFullScan: scanner.ScanDirectory; on an error the status becomes
\* "error" and the function returns
ScanWalk(ok) ==
    \E j \in JobsAt("scan", "walk") :
        /\ IF ok
           THEN Memory(srvReport, srvAllFiles,
                       Moved(j, [j EXCEPT !.pc = "publish", !.snap = srvDisk]))
           ELSE WriteReport("performFullScan", [srvReport EXCEPT !.status = "error"],
                            srvAllFiles, Returned(j))
        /\ UNCHANGED <<srvCfg, srvDisk, srvIgnored, srvHashes, outsideServer>>

\* performFullScan: the counts, the size groups and the file list are published
ScanPublish ==
    \E j \in JobsAt("scan", "publish") :
        /\ WriteReport("performFullScan",
                       [srvReport EXCEPT !.total = Cardinality(j.snap),
                                         !.size = SizeGroupsOf(j.snap),
                                         !.status = "finished"],
                       j.snap, Returned(j))
        /\ UNCHANGED <<srvCfg, srvDisk, srvIgnored, srvHashes, outsideServer>>

\* POST /api/run-step-3 and POST /api/run-visual: go s.RunStep3() and
\* go s.RunVisual(), up to the end of the first locked section of the
\* goroutine: it returns when there is no report or the same analysis is
\* already running, else it takes the status
AnalysisBegin(kind) ==
    /\ CanSpawn
    /\ LET running == IF kind = "step3" THEN "analyzing_step3" ELSE "analyzing_visual"
       IN IF srvReport.nil \/ srvReport.status = running
          THEN Memory(srvReport, srvAllFiles, srvJobs)
          ELSE Memory([srvReport EXCEPT !.status = running], srvAllFiles,
                      srvJobs (+) SetToBag({Job(kind, "walk", {}, {})}))
    /\ UNCHANGED <<srvCfg, srvDisk, srvIgnored, srvHashes, outsideServer>>

\* RunStep3 and RunVisual: files, _ := scanner.ScanDirectory(scanDir, true);
\* RunVisual then starts the hashing pass, which returns at once without a cache
AnalysisWalk ==
    \E j \in JobsAt("step3", "walk") \cup JobsAt("visual", "walk") :
        /\ Memory(srvReport, srvAllFiles,
                  Moved(j, IF j.kind = "step3"
                           THEN Job("step3", "cluster", srvDisk, {})
                           ELSE Job("visual", "hash", srvDisk,
                                    IF srvCfg.cache THEN srvDisk ELSE {})))
        /\ UNCHANGED <<srvCfg, srvDisk, srvIgnored, srvHashes, outsideServer>>

\* RunStep3: the onProgress callback of FindSimilarGroups stores s.report.Progress
Step3Progress ==
    \E j \in JobsAt("step3", "cluster") :
        /\ WriteReport("RunStep3", srvReport, srvAllFiles, srvJobs)
        /\ UNCHANGED <<srvCfg, srvDisk, srvIgnored, srvHashes, outsideServer>>

\* RunStep3: the clusters are published and the status becomes "finished"
Step3Publish ==
    \E j \in JobsAt("step3", "cluster") :
        /\ WriteReport("RunStep3",
                       [srvReport EXCEPT !.similar = FindSimilarGroups(j.snap),
                                         !.status = "finished"],
                       srvAllFiles, Returned(j))
        /\ UNCHANGED <<srvCfg, srvDisk, srvIgnored, srvHashes, outsideServer>>

\* RunVisual: one file of the hashing pass: its hash is stored unless it is
\* cached already or no preview could be read from the archive (hashable says
\* one could; an archive that is gone gives none), then onVisualProgress
\* stores s.report.Progress
VisualHashFile(f, hashable) ==
    \E j \in JobsAt("visual", "hash") :
        /\ f \in j.left
        /\ srvHashes' = IF f \in srvDisk /\ hashable
                        THEN srvHashes \cup {f} ELSE srvHashes
        /\ WriteReport("RunVisual", srvReport, srvAllFiles,
                       Moved(j, [j EXCEPT !.left = j.left \ {f}]))
        /\ UNCHANGED <<srvCfg, srvDisk, srvIgnored, outsideServer>>

\* RunVisual: updateVisualGroups, on a tick of the ticker or (done) when the
\* hashing pass has sent on hashDone, which ends the select loop
UpdateVisualGroups(done) ==
    \E j \in JobsAt("visual", "hash") :
        /\ done => j.left = {}
        /\ WriteReport("RunVisual",
                       [srvReport EXCEPT !.visual =
                            FindVisualDuplicates(j.snap, srvCfg.cache, srvHashes)],
                       srvAllFiles,
                       IF done THEN Moved(j, [j EXCEPT !.pc = "finish"]) ELSE srvJobs)
        /\ UNCHANGED <<srvCfg, srvDisk, srvIgnored, srvHashes, outsideServer>>

\* RunVisual: the last locked section
VisualFinish ==
    \E j \in JobsAt("visual", "finish") :
        /\ WriteReport("RunVisual", [srvReport EXCEPT !.status = "finished"],
                       srvAllFiles, Returned(j))
        /\ UNCHANGED <<srvCfg, srvDisk, srvIgnored, srvHashes, outsideServer>>

ServerNext ==
    \/ Reset
    \/ \E files \in MarkRequests : MarkAsGood(files)
    \/ \E path \in SrvFiles, taken \in BOOLEAN : Delete(path, taken)
    \/ AllFilesBegin
    \/ AllFilesEnd
    \/ StartScan
    \/ \E kind \in {"step3", "visual"} : AnalysisBegin(kind)
    \/ ScanBegin
    \/ \E ok \in BOOLEAN : ScanWalk(ok)
    \/ ScanPublish
    \/ AnalysisWalk
    \/ Step3Progress
    \/ Step3Publish
    \/ \E f \in SrvFiles, hashable \in BOOLEAN : VisualHashFile(f, hashable)
    \/ \E done \in BOOLEAN : UpdateVisualGroups(done)
    \/ VisualFinish

(***************************************************************************)
(* package similarity: FindSimilarNames                                    *)
(*                                                                         *)
(* The input is the slice files[0..n-1], here the files 1..NumNameFiles.   *)
(* Worker w runs the outer loop for i = w, w + numWorkers, ... and sends   *)
(* each pair that passes the checks on pairsChan; the collector goroutine  *)
(* appends what it receives.  The names enter through what the loop body   *)
(* reads of them: the rune count of each normalised name and the score     *)
(* CalculateNormalizedSimilarity gives each pair.                          *)
(***************************************************************************)
NameFiles == 1..NumNameFiles
NamePairs == {p \in NameFiles \X NameFiles : p[1] < p[2]}
NameWorkers == 1..MaxCPUs

\* the checks of the inner loop body on the pair (i, j): different sizes, the
\* length ratio inside [0.4, 2.5] when both names are non-empty, and a score
\* that reaches the threshold
PairPasses(i, j) ==
    /\ nmSize[i] # nmSize[j]
    /\ (nmLen[i] > 0 /\ nmLen[j] > 0) =>
           /\ 10 * nmLen[i] >= 4 * nmLen[j]
           /\ 10 * nmLen[i] <= 25 * nmLen[j]
    /\ nmScore[<<i, j>>] >= nmThreshold

\* the pair after (i, j) in the loops of a worker (<<0, 0>>: the worker is done)
NextPair(i, j) ==
    IF j < NumNameFiles THEN <<i, j + 1>>
    ELSE IF i + nmWorkers < NumNameFiles THEN <<i + nmWorkers, i + nmWorkers + 1>>
    ELSE <<0, 0>>

\* where worker w starts: i = workerID, j = i + 1
FirstPair(w) == IF w < NumNameFiles THEN <<w, w + 1>> ELSE <<0, 0>>

NamesInit ==
    /\ nmWorkers \in NameWorkers
    /\ nmThreshold = 70
    /\ nmSize \in [NameFiles -> 1..2]
    /\ nmLen \in {[f \in NameFiles |-> IF f = long THEN 6 ELSE 2] : long \in 0..1}
    /\ nmScore \in [NamePairs -> {65, 90}]
    /\ nmPos = [w \in NameWorkers |-> IF w <= nmWorkers THEN FirstPair(w) ELSE <<0, 0>>]
    /\ nmChan = <<>>
    /\ nmClosed = FALSE
    /\ nmPairs = <<>>
    /\ nmReturned = FALSE

\* one iteration of the inner loop of worker w
NameWorkerStep(w) ==
    /\ w <= nmWorkers
    /\ nmPos[w] # <<0, 0>>
    /\ LET i == nmPos[w][1]
           j == nmPos[w][2]
       IN /\ PairPasses(i, j) => Len(nmChan) < pairsChanCap
          /\ nmChan' = IF PairPasses(i, j)
                       THEN Append(nmChan, <<i, j, nmScore[<<i, j>>]>>)
                       ELSE nmChan
          /\ nmPos' = [nmPos EXCEPT ![w] = NextPair(i, j)]
    /\ UNCHANGED <<nmWorkers, nmThreshold, nmSize, nmLen, nmScore, nmClosed, nmPairs,
                   nmReturned, outsideNames>>

\* the collector: for p := range pairsChan { pairs = append(pairs, p) }
NameCollect ==
    /\ nmChan # <<>>
    /\ nmPairs' = Append(nmPairs, Head(nmChan))
    /\ nmChan' = Tail(nmChan)
    /\ UNCHANGED <<nmWorkers, nmThreshold, nmSize, nmLen, nmScore, nmPos, nmClosed,
                   nmReturned, outsideNames>>

\* as NameClose, but the channel is closed without waiting for the workers
NameCloseEarly ==
    /\ ~nmClosed
    /\ nmClosed' = TRUE
    /\ UNCHANGED <<nmWorkers, nmThreshold, nmSize, nmLen, nmScore, nmPos, nmChan, nmPairs,
                   nmReturned, outsideNames>>

\* wg.Wait(); close(pairsChan)
NameClose ==
    /\ ~nmClosed
    /\ \A w \in NameWorkers : nmPos[w] = <<0, 0>>
    /\ nmClosed' = TRUE
    /\ UNCHANGED <<nmWorkers, nmThreshold, nmSize, nmLen, nmScore, nmPos, nmChan, nmPairs,
                   nmReturned, outsideNames>>

\* resultsWg.Wait(); return pairs
NameReturn ==
    /\ nmClosed
    /\ nmChan = <<>>
    /\ ~nmReturned
    /\ nmReturned' = TRUE
    /\ UNCHANGED <<nmWorkers, nmThreshold, nmSize, nmLen, nmScore, nmPos, nmChan, nmClosed,
                   nmPairs, outsideNames>>

NamesNext ==
    \/ \E w \in NameWorkers : NameWorkerStep(w)
    \/ NameCollect
    \/ NameClose
    \/ NameReturn

(***************************************************************************)
(* Library functions, one call per behaviour.                              *)
(*                                                                         *)
(* package archive, preview selection.  An archive is the sequence of its  *)
(* file entries in archive order; the internal path of an entry is its     *)
(* position (0 stands for the empty path).  Of a path the functions read   *)
(* the extension, whether it contains "__macosx" or "@eadir" and whether   *)
(* it contains a keyword: an entry carries these and its uncompressed size.*)
(***************************************************************************)
ArchiveEntries ==
    {e \in [kind : {"image", "video", "model", "other"},
            dir : {"", "__MACOSX", "@eaDir"},
            keyword : BOOLEAN,
            size : {0, 10, 20}] :
        /\ e.keyword => e.kind = "model"
        /\ e.kind = "other" => e.dir = "" /\ e.size = 10}

isImageFile(e) == e.dir \notin {"__MACOSX", "@eaDir"} /\ e.kind = "image"

isVideoFile(e) == e.dir \notin {"__MACOSX", "@eaDir"} /\ e.kind = "video"

isModelFile(e) == e.dir # "__MACOSX" /\ e.kind = "model"

hasKeyword(e) == e.keyword

\* the paths of the entries that can serve as a preview, in archive order
ListPreviewsInArchive(a) ==
    SelectSeq([p \in 1..Len(a) |-> p],
              LAMBDA p : isImageFile(a[p]) \/ isModelFile(a[p]) \/ isVideoFile(a[p]))

\* for _, f := range previews { if is(f.Path) && f.Size > max { best = f.Path; max = f.Size } }
\* over the paths that satisfy is
RECURSIVE LargestOf(_, _, _, _)
LargestOf(a, paths, best, maxSize) ==
    IF paths = <<>> THEN best
    ELSE IF a[Head(paths)].size > maxSize
         THEN LargestOf(a, Tail(paths), Head(paths), a[Head(paths)].size)
         ELSE LargestOf(a, Tail(paths), best, maxSize)

\* the path of the best preview candidate (0: the error "no preview found")
FindPreviewPathInArchive(a) ==
    LET previews == ListPreviewsInArchive(a)
        bestImage == LargestOf(a, SelectSeq(previews, LAMBDA p : isImageFile(a[p])), 0, 0)
        bestVideo == LargestOf(a, SelectSeq(previews, LAMBDA p : isVideoFile(a[p])), 0, 0)
        keyworded == SelectSeq(previews, LAMBDA p : isModelFile(a[p]) /\ hasKeyword(a[p]))
        bestModel == LargestOf(a, SelectSeq(previews, LAMBDA p : isModelFile(a[p])), 0, 0)
    IN IF previews = <<>> THEN 0
       ELSE IF bestImage # 0 THEN bestImage
       ELSE IF bestVideo # 0 THEN bestVideo
       ELSE IF keyworded # <<>> THEN Head(keyworded)
       ELSE bestModel

(***************************************************************************)
(* package db: the preview table of the cache and the scan fingerprint.    *)
(* The table maps a path to at most one row (path is the primary key).     *)
(***************************************************************************)
\* as GetPreviewPath, but the stored tag is not compared
GetPreviewPathAnyTag(path, tag, queried) ==
    IF ~queried \/ path \notin DOMAIN previewCache
    THEN [internalPath |-> 0, found |-> FALSE]
    ELSE [internalPath |-> previewCache[path].internal_path, found |-> TRUE]

\* c.GetPreviewPath(path, modTime) with modTime = tag; queried: the SELECT ran without an error
\* other than sql.ErrNoRows
GetPreviewPath(path, tag, queried) ==
    IF \/ ~queried
       \/ path \notin DOMAIN previewCache
       \/ previewCache[path].mod_time # tag
    THEN [internalPath |-> 0, found |-> FALSE]
    ELSE [internalPath |-> previewCache[path].internal_path, found |-> TRUE]

\* sort.Slice(files, less by Path): the files in ascending order of path
RECURSIVE SortByPath(_)
SortByPath(files) ==
    IF files = <<>> THEN <<>>
    ELSE LET k == CHOOSE k \in 1..Len(files) :
                      \A j \in 1..Len(files) : files[k].path <= files[j].path
         IN <<files[k]>> \o SortByPath(SubSeq(files, 1, k - 1) \o
                                        SubSeq(files, k + 1, Len(files)))

\* as CalculateFingerprint, but the files are hashed in the order given
CalculateFingerprintUnsorted(files) ==
    [k \in 1..2 * Len(files) |->
        IF k % 2 = 1 THEN files[(k + 1) \div 2].path ELSE files[k \div 2].modTime]

\* c.CalculateFingerprint(files): the digest of the paths and modification
\* times written to the hash in sorted order, here the written sequence
CalculateFingerprint(files) ==
    LET sorted == SortByPath(files)
    IN [k \in 1..2 * Len(files) |->
           IF k % 2 = 1 THEN sorted[(k + 1) \div 2].path ELSE sorted[k \div 2].modTime]

(***************************************************************************)
(* package similarity: the name score.  A string is the sequence of its    *)
(* characters (all of one byte here, so runes and bytes coincide).  A      *)
(* float64 between 0 and 1 is the exact fraction <<numerator, denominator>>*)
(* in lowest terms; the score, rounded to one decimal, is a number of      *)
(* tenths (887 stands for 88.7).                                           *)
(***************************************************************************)
\* the fraction n / d in lowest terms
Fraction(n, d) ==
    LET RECURSIVE Gcd(_, _)
        Gcd(a, b) == IF b = 0 THEN a ELSE Gcd(b, a % b)
    IN <<n \div Gcd(n, d), d \div Gcd(n, d)>>

\* normalizeFilename: the extension is cut at the last ".", the name is
\* lower-cased, "_" and "-" become spaces, and the spaces at both ends go
normalizeFilename(filename) ==
    LET dots == {i \in 1..Len(filename) : filename[i] = "."}
        idx == CHOOSE i \in dots : \A k \in dots : k <= i
        name == IF dots = {} THEN filename ELSE SubSeq(filename, 1, idx - 1)
        ToLower(c) == CASE c = "B" -> "b" [] c = "R" -> "r" [] OTHER -> c
        spaced == [i \in 1..Len(name) |->
                      IF ToLower(name[i]) \in {"_", "-"} THEN " " ELSE ToLower(name[i])]
        inked == {i \in 1..Len(spaced) : spaced[i] # " "}
    IN IF inked = {} THEN <<>>
       ELSE SubSeq(spaced, CHOOSE i \in inked : \A k \in inked : i <= k,
                           CHOOSE i \in inked : \A k \in inked : k <= i)

\* levenshteinDistance: the matrix is filled row by row; cells holds the
\* cells filled so far in that order
RECURSIVE levenshteinDistance(_, _, _)
levenshteinDistance(r1, r2, cells) ==
    LET width == Len(r2) + 1
        i == Len(cells) \div width
        j == Len(cells) % width
        cost == IF r1[i] = r2[j] THEN 0 ELSE 1
        deletion == cells[(i - 1) * width + j + 1] + 1
        insertion == cells[i * width + j] + 1
        substitution == cells[(i - 1) * width + j] + cost
        least == IF deletion <= insertion /\ deletion <= substitution THEN deletion
                 ELSE IF insertion <= substitution THEN insertion ELSE substitution
    IN IF Len(cells) = (Len(r1) + 1) * width THEN cells[Len(cells)]
       ELSE levenshteinDistance(r1, r2,
                Append(cells, IF i = 0 THEN j ELSE IF j = 0 THEN i ELSE least))

levenshteinSimilarity(s1, s2) ==
    LET maxLen == IF Len(s1) >= Len(s2) THEN Len(s1) ELSE Len(s2)
    IN IF maxLen = 0 THEN <<1, 1>>
       ELSE Fraction(maxLen - levenshteinDistance(s1, s2, <<>>), maxLen)

\* the matching loop of jaroSimilarity from position i of s1 on: the pairs
\* <<i, j>> it matches, given the positions of s2 matched so far
RECURSIVE JaroMatches(_, _, _, _)
JaroMatches(s1, s2, i, s2Matches) ==
    LET longer == IF Len(s1) >= Len(s2) THEN Len(s1) ELSE Len(s2)
        matchDistance == IF longer \div 2 - 1 < 0 THEN 0 ELSE longer \div 2 - 1
        free == {j \in 1..Len(s2) : /\ j >= i - matchDistance
                                     /\ j <= i + matchDistance
                                     /\ j \notin s2Matches
                                     /\ s1[i] = s2[j]}
        first == CHOOSE j \in free : \A k \in free : j <= k
    IN IF i > Len(s1) THEN {}
       ELSE IF free = {} THEN JaroMatches(s1, s2, i + 1, s2Matches)
       ELSE {<<i, first>>} \cup JaroMatches(s1, s2, i + 1, s2Matches \cup {first})

\* as jaroSimilarity, but both length terms divide by the length of s1
jaroSimilarityOneLength(s1, s2) ==
    LET pairs == JaroMatches(s1, s2, 1, {})
        matches == Cardinality(pairs)
    IN IF s1 = s2 THEN <<1, 1>>
       ELSE IF Len(s1) = 0 \/ Len(s2) = 0 \/ matches = 0 THEN <<0, 1>>
       ELSE Fraction(2 * matches * matches * Len(s1) + matches * Len(s1) * Len(s1),
                     3 * Len(s1) * Len(s1) * matches)

jaroSimilarity(s1, s2) ==
    LET pairs == JaroMatches(s1, s2, 1, {})
        matches == Cardinality(pairs)
        \* the k-th matched position of s1 and of s2, in ascending order
        Kth(positions, k) ==
            CHOOSE x \in positions : Cardinality({y \in positions : y < x}) = k - 1
        transpositions ==
            Cardinality({k \in 1..matches :
                s1[Kth({p[1] : p \in pairs}, k)] # s2[Kth({p[2] : p \in pairs}, k)]})
    IN IF s1 = s2 THEN <<1, 1>>
       ELSE IF Len(s1) = 0 \/ Len(s2) = 0 \/ matches = 0 THEN <<0, 1>>
       ELSE Fraction(matches * matches * Len(s2) + matches * matches * Len(s1)
                         + (matches - transpositions \div 2) * Len(s1) * Len(s2),
                     3 * Len(s1) * Len(s2) * matches)

jaroWinklerSimilarity(s1, s2) ==
    LET jaro == jaroSimilarity(s1, s2)
        upTo == IF Len(s1) <= Len(s2) THEN Len(s1) ELSE Len(s2)
        differ == {i \in 1..(IF upTo <= 4 THEN upTo ELSE 4) : s1[i] # s2[i]}
        prefixLen == IF differ = {} THEN (IF upTo <= 4 THEN upTo ELSE 4)
                     ELSE (CHOOSE i \in differ : \A k \in differ : i <= k) - 1
    IN Fraction(10 * jaro[1] + prefixLen * (jaro[2] - jaro[1]), 10 * jaro[2])

\* ngramSimilarity(s1, s2, n) with getNgrams: the Jaccard index of the two
\* sets of n-grams (a string shorter than n is its own single n-gram)
ngramSimilarity(s1, s2, n) ==
    LET getNgrams(s) == IF Len(s) < n THEN {s}
                        ELSE {SubSeq(s, i, i + n - 1) : i \in 1..(Len(s) - n + 1)}
        common == Cardinality(getNgrams(s1) \cap getNgrams(s2))
        total == Cardinality(getNgrams(s1)) + Cardinality(getNgrams(s2)) - common
    IN IF total = 0 THEN <<0, 1>> ELSE Fraction(common, total)

\* CalculateNormalizedSimilarity: the weighted sum times 100, rounded to one
\* decimal, in tenths
CalculateNormalizedSimilarity(norm1, norm2) ==
    LET lev == levenshteinSimilarity(norm1, norm2)
        jaro == jaroWinklerSimilarity(norm1, norm2)
        ngram == ngramSimilarity(norm1, norm2, 2)
        \* (lev * 0.5 + jaro * 0.3 + ngram * 0.2) * 1000 as the fraction num / den
        num == 100 * (5 * lev[1] * jaro[2] * ngram[2] + 3 * jaro[1] * lev[2] * ngram[2]
                          + 2 * ngram[1] * lev[2] * jaro[2])
        den == lev[2] * jaro[2] * ngram[2]
    IN IF norm1 = norm2 THEN 1000
       ELSE (2 * num + den) \div (2 * den)

CalculateNameSimilarity(name1, name2) ==
    CalculateNormalizedSimilarity(normalizeFilename(name1), normalizeFilename(name2))

CallsInit ==
    /\ callFn = "none"
    /\ callArg = <<>>
    /\ callRet = <<>>
    /\ previewCache = <<>>
    /\ previewPuts = <<>>

\* c.PutPreviewPath(path, internalPath, modTime) with modTime = tag; written: the INSERT OR
\* REPLACE was executed, else its error is dropped and the table stays
PutPreviewPath(path, internalPath, tag, written) ==
    /\ callFn \in {"none", "PutPreviewPath"}
    /\ Len(previewPuts) < MaxPuts
    /\ callFn' = "PutPreviewPath"
    /\ IF written
       THEN /\ previewCache' = (path :> [internal_path |-> internalPath,
                                         mod_time |-> tag]) @@ previewCache
            /\ previewPuts' = Append(previewPuts,
                                     [path |-> path, internalPath |-> internalPath,
                                      modTime |-> tag])
       ELSE UNCHANGED <<previewCache, previewPuts>>
    /\ UNCHANGED <<callArg, callRet, outsideCalls>>

\* FindPreviewPathInArchive(archivePath) on the archive a; listed: the
\* archive could be opened and its entries read, else the error is returned
\* (an archive that cannot be read stands here with no entries)
CallFindPreviewPath(a, listed) ==
    /\ callFn = "none"
    /\ ~listed => a = <<>>
    /\ callFn' = "FindPreviewPathInArchive"
    /\ callArg' = [archive |-> a, listed |-> listed]
    /\ callRet' = IF listed
                  THEN [previews |-> ListPreviewsInArchive(a),
                        path |-> FindPreviewPathInArchive(a)]
                  ELSE [previews |-> <<>>, path |-> 0]
    /\ UNCHANGED <<previewCache, previewPuts, outsideCalls>>

\* c.CalculateFingerprint(files) on a list of scanned files (a scan lists a
\* path once)
CallCalculateFingerprint(files) ==
    /\ callFn = "none"
    /\ \A i, j \in 1..Len(files) : files[i].path = files[j].path => i = j
    /\ callFn' = "CalculateFingerprint"
    /\ callArg' = files
    /\ callRet' = CalculateFingerprint(files)
    /\ UNCHANGED <<previewCache, previewPuts, outsideCalls>>

\* visual.ProcessVisualHashes(files, cache, ...) followed by
\* visual.FindVisualDuplicates(files, cache, threshold), as RunVisual runs
\* them; hashable: the files whose preview gives a hash, which the first call
\* stores unless there is no cache, when it returns at once
CallFindVisualDuplicates(files, hashable, cacheOn) ==
    /\ callFn = "none"
    /\ callFn' = "FindVisualDuplicates"
    /\ callArg' = [files |-> files, hashable |-> hashable, cache |-> cacheOn]
    /\ callRet' = FindVisualDuplicates(files, cacheOn, IF cacheOn THEN hashable ELSE {})
    /\ UNCHANGED <<previewCache, previewPuts, outsideCalls>>

\* similarity.CalculateNameSimilarity(name1, name2)
CallCalculateNameSimilarity(name1, name2) ==
    /\ callFn = "none"
    /\ callFn' = "CalculateNameSimilarity"
    /\ callArg' = <<name1, name2>>
    /\ callRet' = CalculateNameSimilarity(name1, name2)
    /\ UNCHANGED <<previewCache, previewPuts, outsideCalls>>

\* FindSimilarNames(files, threshold) as a function of its arguments: the
\* pairs (i, j), i < j, that some worker sends on pairsChan, with the score
\* sent; files is the slice, each file a name and a size.  (The workers and
\* the channel are the bulk pairwise search component.)
FindSimilarNames(files, threshold) ==
    IF Len(files) < 2 THEN {}
    ELSE LET normalized == [i \in 1..Len(files) |-> normalizeFilename(files[i].name)]
             len(i) == Len(normalized[i])
             skipped(i, j) ==
                 /\ len(i) > 0
                 /\ len(j) > 0
                 /\ \/ 10 * len(i) < 4 * len(j)
                    \/ 10 * len(i) > 25 * len(j)
             similarity(i, j) == CalculateNormalizedSimilarity(normalized[i], normalized[j])
         IN {[file1 |-> i, file2 |-> j, similarity |-> similarity(i, j)] :
                 <<i, j>> \in {p \in (1..Len(files)) \X (1..Len(files)) :
                                 /\ p[1] < p[2]
                                 /\ files[p[1]].size # files[p[2]].size
                                 /\ ~skipped(p[1], p[2])
                                 /\ similarity(p[1], p[2]) >= 10 * threshold}}

\* FindSimilarNames(files, threshold) on a slice of two files
CallFindSimilarNames(files, threshold) ==
    /\ callFn = "none"
    /\ callFn' = "FindSimilarNames"
    /\ callArg' = <<files, threshold>>
    /\ callRet' = FindSimilarNames(files, threshold)
    /\ UNCHANGED <<previewCache, previewPuts, outsideCalls>>

(***************************************************************************)
(* package stl: parseSTL and CompareSTL                                    *)
(*                                                                         *)
(* A payload is given by what the parser reads of its bytes.  One in the   *)
(* binary layout has 80 header bytes (solid: they begin with "solid"), the *)
(* little-endian count at bytes 80..83 and then whole 50-byte triangle     *)
(* records, so its length is 84 + 50 * Len(triangles); none of its lines   *)
(* begins with "facet" or "vertex".  One in the text layout is a sequence  *)
(* of lines, each "facet ..." or "vertex x y z" (long: it has at least 84  *)
(* bytes).  A coordinate is a multiple of 0.0005, so epsilon = 0.001 is 2. *)
(***************************************************************************)
MaxFloat32 == 1000000

MeshPayloads ==
    LET Triangles == {<<(<<0, 0, 0>>), (<<4, 0, 0>>), (<<0, 4, 0>>)>>,
                      <<(<<0, 0, 0>>), (<<4, 0, 0>>), (<<1, 5, 0>>)>>,
                      <<(<<0, 0, 0>>), (<<4, 0, 0>>), (<<0, 4, 8>>)>>}
        Lines == {<<"facet">>, <<"vertex", 4, 0, 8>>}
    IN UNION {[layout : {"binary"}, solid : BOOLEAN, long : {TRUE},
               count : 0..MaxTriangles, triangles : [1..n -> Triangles],
               lines : {<<>>}] : n \in 0..MaxTriangles}
       \cup
       UNION {[layout : {"text"}, solid : BOOLEAN, long : BOOLEAN,
               count : {0}, triangles : {<<>>},
               lines : [1..n -> Lines]] : n \in 0..MaxTriangles}

\* the Bounds after min/max over the vertices, from MinX: math.MaxFloat32,
\* MaxX: -math.MaxFloat32 and so on
BoundsOf(vertices) ==
    LET lo(k) == CHOOSE m \in {MaxFloat32} \cup {v[k] : v \in vertices} :
                     \A x \in {MaxFloat32} \cup {v[k] : v \in vertices} : m <= x
        hi(k) == CHOOSE m \in {-MaxFloat32} \cup {v[k] : v \in vertices} :
                     \A x \in {-MaxFloat32} \cup {v[k] : v \in vertices} : m >= x
    IN [MinX |-> lo(1), MaxX |-> hi(1), MinY |-> lo(2), MaxY |-> hi(2),
        MinZ |-> lo(3), MaxZ |-> hi(3)]

\* isBinarySTL(data): len(data) >= 84 and no "solid" prefix
isBinarySTL(data) == data.long /\ ~data.solid

\* parseBinarySTL(data).  Four bytes of text read as the count give some
\* hundred million triangles, more than any payload here holds.
parseBinarySTL(data) ==
    IF ~data.long THEN [err |-> "file too small for binary STL"]
    ELSE IF data.layout = "text" \/ Len(data.triangles) < data.count
         THEN [err |-> "invalid binary STL"]
    ELSE [err |-> "nil", TriangleCount |-> data.count, VertexCount |-> data.count * 3,
          IsBinary |-> TRUE,
          Bounds |-> BoundsOf({data.triangles[i][v] : i \in 1..data.count, v \in 1..3})]

\* parseASCIISTL(data): a line "facet" counts a triangle, a line "vertex"
\* counts a vertex and enters the bounds
parseASCIISTL(data) ==
    LET facets == {i \in 1..Len(data.lines) : data.lines[i][1] = "facet"}
        vertexLines == {i \in 1..Len(data.lines) : data.lines[i][1] = "vertex"}
    IN [err |-> "nil", TriangleCount |-> Cardinality(facets),
        VertexCount |-> Cardinality(vertexLines), IsBinary |-> FALSE,
        Bounds |-> BoundsOf({<<data.lines[i][2], data.lines[i][3], data.lines[i][4]>> :
                                 i \in vertexLines})]

parseSTL(data) == IF isBinarySTL(data) THEN parseBinarySTL(data) ELSE parseASCIISTL(data)

\* boundsEqual(b1, b2): every one of the six differences is below epsilon
boundsEqual(b1, b2) ==
    LET abs(x) == IF x < 0 THEN -x ELSE x
        epsilon == 2
    IN /\ abs(b1.MinX - b2.MinX) < epsilon
       /\ abs(b1.MaxX - b2.MaxX) < epsilon
       /\ abs(b1.MinY - b2.MinY) < epsilon
       /\ abs(b1.MaxY - b2.MaxY) < epsilon
       /\ abs(b1.MinZ - b2.MinZ) < epsilon
       /\ abs(b1.MaxZ - b2.MaxZ) < epsilon

\* CompareSTL(data1, data2): identical and diff; Description is the text
\* with the number Sprintf puts in it and the suffix
CompareSTL(data1, data2) ==
    LET info1 == parseSTL(data1)
        info2 == parseSTL(data2)
        triangleDiff == info2.TriangleCount - info1.TriangleCount
        changed == IF boundsEqual(info1.Bounds, info2.Bounds) THEN ""
                   ELSE ", dimensions changed"
    IN IF data1 = data2 THEN [identical |-> TRUE, diff |-> "nil"]
       ELSE IF info1.err # "nil" \/ info2.err # "nil"
            THEN [identical |-> FALSE,
                  diff |-> [Vertices1 |-> 0, Vertices2 |-> 0, Triangles1 |-> 0,
                            Triangles2 |-> 0,
                            Description |-> <<"Unable to parse STL format">>]]
       ELSE [identical |-> FALSE,
             diff |-> [Vertices1 |-> info1.VertexCount, Vertices2 |-> info2.VertexCount,
                       Triangles1 |-> info1.TriangleCount,
                       Triangles2 |-> info2.TriangleCount,
                       Description |->
                           IF triangleDiff > 0
                           THEN <<"Geometry expanded", triangleDiff, changed>>
                           ELSE IF triangleDiff < 0
                           THEN <<"Geometry simplified", triangleDiff, changed>>
                           ELSE IF ~boundsEqual(info1.Bounds, info2.Bounds)
                           THEN <<"Geometry transformed (same triangle count, different dimensions)">>
                           ELSE <<"Minor modifications (same structure, different vertex data)">>]]

\* parseSTL(data)
CallParseSTL(data) ==
    /\ callFn = "none"
    /\ callFn' = "parseSTL"
    /\ callArg' = <<data>>
    /\ callRet' = parseSTL(data)
    /\ UNCHANGED <<previewCache, previewPuts, outsideCalls>>

\* CompareSTL(data1, data2)
CallCompareSTL(data1, data2) ==
    /\ callFn = "none"
    /\ callFn' = "CompareSTL"
    /\ callArg' = <<data1, data2>>
    /\ callRet' = CompareSTL(data1, data2)
    /\ UNCHANGED <<previewCache, previewPuts, outsideCalls>>

\* one call of a function per behaviour, but for the writes to the table
CallsNext ==
    \/ /\ callFn = "none"
       /\ \E n \in 0..MaxEntries, listed \in BOOLEAN :
              \E a \in [1..n -> ArchiveEntries] : CallFindPreviewPath(a, listed)
    \/ /\ callFn = "none"
       /\ \E n \in 0..MaxScanFiles :
              \E files \in [1..n -> [path : 1..MaxScanFiles, modTime : 1..MaxCacheKey]] :
                  CallCalculateFingerprint(files)
    \/ /\ callFn = "none"
       /\ \E files \in SUBSET SrvFiles, cacheOn \in BOOLEAN :
              \E hashable \in SUBSET files : CallFindVisualDuplicates(files, hashable, cacheOn)
    \/ /\ callFn = "none"
       /\ \E n1, n2 \in 0..MaxNameLen :
              \E name1 \in [1..n1 -> {"a", "B", "_"}],
                 name2 \in [1..n2 -> {"a", "B", "_"}] :
                  CallCalculateNameSimilarity(name1, name2)
    \/ /\ callFn = "none"
       /\ \E name1, name2 \in {<<"R", "e", "p", "o", "r", "t", "_", "v", "2">>,
                                <<"R", "e", "p", "o", "r", "t", "_", "v", "3">>,
                                <<"B", "a", "-", "a", ".", "B", ".", "a">>} :
              CallCalculateNameSimilarity(name1, name2)
    \/ /\ callFn = "none"
       /\ \E n1, n2 \in 0..MaxNameLen, size2 \in 1..2, threshold \in {0, 70} :
              \E name1 \in [1..n1 -> {"a", "_"}], name2 \in [1..n2 -> {"a", "_"}] :
                  CallFindSimilarNames(<<[name |-> name1, size |-> 1],
                                         [name |-> name2, size |-> size2]>>, threshold)
    \/ /\ callFn = "none"
       /\ \E data \in MeshPayloads : CallParseSTL(data)
    \/ /\ callFn = "none"
       /\ \E data1, data2 \in MeshPayloads : CallCompareSTL(data1, data2)
    \/ \E path, internalPath, tag \in 1..MaxCacheKey, written \in BOOLEAN :
           PutPreviewPath(path, internalPath, tag, written)

PoolNext ==
    \/ ProducerSend
    \/ ProducerClose
    \/ WorkerReceive
    \/ WorkerExit
    \/ \E f \in VisualFiles, ok \in BOOLEAN : WorkerExtracted(f, ok)
    \/ \E f \in VisualFiles : WorkerPanic(f)
    \/ \E f \in VisualFiles : WorkerLock(f)
    \/ \E f \in VisualFiles : WorkerReport(f)
    \/ PassReturn

PreviewNext ==
    \/ PreviewArrive
    \/ PreviewAcquire
    \/ PreviewRelease

\* the command-line cleanup is not running
CleanupIdle ==
    /\ cfgMode = "off" /\ cfgAuto = FALSE /\ cfgTrash = FALSE /\ cfgRef = FALSE
    /\ modTime = [f \in GroupFiles |-> 0] /\ fileCount = [f \in GroupFiles |-> 0]
    /\ mvName = [f \in GroupFiles |-> FALSE] /\ similar = {}
    /\ exists = [f \in GroupFiles |-> TRUE] /\ inTrash = [f \in GroupFiles |-> FALSE]
    /\ refNote = [f \in GroupFiles |-> 0]
    /\ ci = 0 /\ cj = 0 /\ lastTarget = 0 /\ lastPreserved = 0

\* no hashing pass and no preview request: the pool has nothing to do
VisualIdle ==
    /\ sent = 0 /\ jobs = <<>> /\ jobsClosed = FALSE
    /\ stage = [f \in VisualFiles |-> "new"] /\ exited = 0
    /\ fval = [f \in VisualFiles |-> 0] /\ vmu = 0 /\ processed = 0
    /\ progressLog = <<>> /\ hashCache = {} /\ passReturned = FALSE
    /\ PreviewInit

\* no RAR reader call is running
RarIdle == RarInit

\* the dashboard server is not started
ServerIdle ==
    /\ srvCfg = [cache |-> FALSE]
    /\ srvReport = NilReport /\ srvAllFiles = {}
    /\ srvDisk = SrvFiles
    /\ srvIgnored = {} /\ srvHashes = {}
    /\ srvJobs = EmptyBag
    /\ srvReading = "idle" /\ srvFault = "none"

\* no bulk pairwise search is running
NamesIdle ==
    /\ nmWorkers = 1 /\ nmThreshold = 70
    /\ nmSize = [f \in NameFiles |-> 1] /\ nmLen = [f \in NameFiles |-> 2]
    /\ nmScore = [p \in NamePairs |-> 65]
    /\ nmPos = [w \in NameWorkers |-> <<0, 0>>]
    /\ nmChan = <<>> /\ nmClosed = FALSE /\ nmPairs = <<>> /\ nmReturned = FALSE

InitVisual ==
    VisualInit /\ PreviewInit /\ RarInit /\ CleanupIdle /\ ServerIdle /\ NamesIdle /\ CallsInit

SpecVisual == InitVisual /\ [][PoolNext]_vars

\* a pass over a cold cache (every file is extracted) while the dashboard
\* serves preview requests
InitThrottle ==
    /\ VisualInit /\ hashCache = {} /\ PreviewInit
    /\ RarInit /\ CleanupIdle /\ ServerIdle /\ NamesIdle /\ CallsInit

ThrottleNext == PoolNext \/ PreviewNext

SpecThrottle == InitThrottle /\ [][ThrottleNext]_vars

InitRar == VisualIdle /\ RarInit /\ CleanupIdle /\ ServerIdle /\ NamesIdle /\ CallsInit

SpecRar == InitRar /\ [][RarNext]_vars

InitCleanup == VisualIdle /\ RarIdle /\ CleanupInit /\ ServerIdle /\ NamesIdle /\ CallsInit

SpecCleanup == InitCleanup /\ [][CleanupNext]_vars

InitServer == VisualIdle /\ RarIdle /\ CleanupIdle /\ ServerInit /\ NamesIdle /\ CallsInit

SpecServer == InitServer /\ [][ServerNext]_vars

\* the dashboard server where every goroutine that can take its next step
\* takes it in the end; requests may or may not arrive
SpecServerLive ==
    /\ InitServer
    /\ [][ServerNext]_vars
    /\ WF_vars(ScanBegin)
    /\ WF_vars(\E ok \in BOOLEAN : ScanWalk(ok))
    /\ WF_vars(ScanPublish)
    /\ WF_vars(AnalysisWalk)
    /\ WF_vars(Step3Publish)
    /\ WF_vars(\E f \in SrvFiles, hashable \in BOOLEAN : VisualHashFile(f, hashable))
    /\ WF_vars(UpdateVisualGroups(TRUE))
    /\ WF_vars(VisualFinish)

InitNames == VisualIdle /\ RarIdle /\ CleanupIdle /\ ServerIdle /\ NamesInit /\ CallsInit

SpecNames == InitNames /\ [][NamesNext]_vars

\* FindSimilarNames where every goroutine that can run does run in the end
SpecNamesLive ==
    /\ InitNames
    /\ [][NamesNext]_vars
    /\ \A w \in NameWorkers : WF_vars(NameWorkerStep(w))
    /\ WF_vars(NameCollect)
    /\ WF_vars(NameClose)
    /\ WF_vars(NameReturn)

InitCalls == VisualIdle /\ RarIdle /\ CleanupIdle /\ ServerIdle /\ NamesIdle /\ CallsInit

SpecCalls == InitCalls /\ [][CallsNext]_vars

(***************************************************************************)
(* Claims about the worker pool                                            *)
(***************************************************************************)

\* C1: a panic while processing one file is isolated to that file: when the
\* pass returns, every file other than the faulting ones has been processed
\* (its loop iteration ran to the end), whatever the number of faulting files.
C1_PanicIsolatedPerFile ==
    passReturned => \A f \in VisualFiles : stage[f] \in {"done", "panicked"}

\* C8: the number of archive extractions in flight (preview handlers holding
\* the semaphore plus hashing workers inside FindPreviewInArchive) never
\* exceeds the extraction throttle bound of 4.
ExtractionsInFlight ==
    previewSem + Cardinality({f \in VisualFiles : stage[f] = "extract"})

C8_ExtractionsThrottled == ExtractionsInFlight <= PreviewSemCap

\* C9: within one pass the values handed to onProgress are non-decreasing in
\* the order of the calls, whatever the order in which workers finish.
C9_ProgressMonotone ==
    \A i \in 1..(Len(progressLog) - 1) : progressLog[i] <= progressLog[i + 1]

\* C9 witness: three values have been handed to onProgress, and a later file
\* of the input was reported while an earlier one was still being extracted
C9_Witness ==
    /\ Len(progressLog) >= 3
    /\ \E f, g \in VisualFiles : f < g /\ stage[g] = "done" /\ stage[f] = "extract"

(***************************************************************************)
(* Claims about the RAR readers                                            *)
(***************************************************************************)

\* C10: no RAR reader operation (list entries, extract all, read one entry,
\* largest image) lets a panic escape to its caller: a failed open or a
\* decoder fault always comes back as an error value.
C10_RarNeverPanics == rarResult # "panic"

(***************************************************************************)
(* Claims about the command-line cleanup                                   *)
(***************************************************************************)

\* C3: with a trash folder configured a delete action never destroys the
\* target: whether the move succeeded or failed, the file is afterwards still
\* at its original path or inside the trash folder.
C3_TrashNeverDestroys ==
    cfgTrash => \A f \in GroupFiles : exists[f] \/ inTrash[f]

\* C4: during the cleanup of a same-size group, whenever a file is removed as
\* a duplicate the file recorded as its preserved original still exists, and
\* a reference note that is written never names a file that is already gone.
C4_PreservedOriginalExists ==
    [][\A f \in GroupFiles :
          /\ (exists[f] /\ ~exists'[f]) => exists'[lastPreserved']
          /\ (refNote'[f] # refNote[f]) => exists'[refNote'[f]]]_vars

(***************************************************************************)
(* Claims about the dashboard server                                       *)
(***************************************************************************)

\* C2: no deletion path of the tool removes or moves a file whose name marks
\* it as a part of a multi-volume archive: under the dashboard's handlers,
\* the delete action included, every such file stays at its path.
C2_PartsNeverRemoved == \A f \in SrvFiles : SrvIsPart(f) => f \in srvDisk

\* C5: a mark-as-good request with a non-empty member list completes without
\* a fault in every state of the server: with no report, after a reset, and
\* while a scan, Step 3 or the visual analysis runs.
C5_MarkAsGoodNeverFaults == srvFault # "mark-as-good"

\* C6: every access to the shared report and to the all-files list happens
\* under the report's mutex, so no two accesses race: the report and the list
\* are never written while a handler is in the middle of reading them.
C6_NoRacingAccess ==
    [][srvReading # "idle" => UNCHANGED <<srvReport, srvAllFiles>>]_vars

(***************************************************************************)
(* Claims about FindSimilarNames                                           *)
(***************************************************************************)

\* the list a single worker returns: the passing pairs in loop order
RECURSIVE PairsInLoopOrder(_, _)
PairsInLoopOrder(i, j) ==
    IF i >= NumNameFiles THEN <<>>
    ELSE IF j > NumNameFiles THEN PairsInLoopOrder(i + 1, i + 2)
    ELSE (IF PairPasses(i, j) THEN << <<i, j, nmScore[<<i, j>>]>> >> ELSE <<>>)
         \o PairsInLoopOrder(i, j + 1)

\* C7: for one file list and threshold FindSimilarNames returns the same list
\* of pairs with the same scores, whatever the number of workers and however
\* they interleave: the list is the one a single worker produces.
C7_SameListForAnyWorkers == nmReturned => nmPairs = PairsInLoopOrder(1, 2)

(***************************************************************************)
(* Claims about preview selection                                          *)
(***************************************************************************)
\* C11: preview selection is a strict priority chain: the largest image if the
\* archive holds an image the image tier accepts, otherwise the largest video
\* if it holds one, otherwise a 3D-model file whose path contains a keyword,
\* otherwise the largest 3D-model file; a lower tier is used only when every
\* higher tier has no entry.
C11_PriorityChain ==
    (callFn = "FindPreviewPathInArchive" /\ callArg.listed) =>
        LET a == callArg.archive
            images == {p \in 1..Len(a) : isImageFile(a[p])}
            videos == {p \in 1..Len(a) : isVideoFile(a[p])}
            models == {p \in 1..Len(a) : isModelFile(a[p])}
            keyworded == {p \in models : hasKeyword(a[p])}
            IsLargestOf(tier) ==
                callRet.path \in tier /\ \A q \in tier : a[callRet.path].size >= a[q].size
        IN IF images # {} THEN IsLargestOf(images)
           ELSE IF videos # {} THEN IsLargestOf(videos)
           ELSE IF keyworded # {} THEN callRet.path \in keyworded
           ELSE IF models # {} THEN IsLargestOf(models)
           ELSE callRet.path = 0

\* C12: no entry under a system-metadata directory (__MACOSX or @eaDir) is
\* listed as a preview candidate or returned by preview selection, in any
\* tier: image, video or 3D model.
C12_NoMetadataEntry ==
    callFn = "FindPreviewPathInArchive" =>
        LET a == callArg.archive
            listed == {callRet.previews[k] : k \in 1..Len(callRet.previews)}
        IN \A p \in listed \cup ({callRet.path} \ {0}) : a[p].dir = ""

(***************************************************************************)
(* Claims about the groups of the report                                   *)
(***************************************************************************)
\* C13: no duplicate group handed to the report consists solely of parts of
\* one multi-volume set: the size group analyzeSameSizeDifferentName returns
\* for a slice of files is never made of parts of the same split archive only.
C13_NoGroupOfPartsOnly ==
    ci = 0 => ~(\A f \in CurrentGroupFiles : mvName[f])

\* C14: in every reachable state of the dashboard's report, after any sequence
\* of scan, Step 3, visual analysis, delete and mark-as-good operations, every
\* duplicate group it holds (size, similarity, visual) has at least two members.
C14_GroupsHaveTwoMembers ==
    \A g \in srvReport.size \cup srvReport.similar \cup srvReport.visual :
        Cardinality(g) >= 2

\* C14 witness: a scan published all files, a visual analysis published a
\* group, and a delete then took a member out of the report's only size
\* group, which is gone.
C14_Witness ==
    /\ ~srvReport.nil
    /\ srvAllFiles = SrvFiles
    /\ srvReport.total = NumServerFiles - 1
    /\ srvReport.size = {}
    /\ srvReport.visual # {}
    /\ srvIgnored = {}

(***************************************************************************)
(* Claims about the cache                                                  *)
(***************************************************************************)
\* C15: cache entries keyed by modification time are self-invalidating: after
\* any sequence of puts a lookup for (path, tag) returns a value only if the
\* row stored last for that path carries exactly that tag, and then it is the
\* value of that put; a lookup with any other tag misses.
C15_LookupNeverStale ==
    \A path, tag \in 1..MaxCacheKey, queried \in BOOLEAN :
        LET got == GetPreviewPath(path, tag, queried)
            puts == SelectSeq(previewPuts, LAMBDA p : p.path = path)
        IN got.found =>
               /\ puts # <<>>
               /\ puts[Len(puts)].modTime = tag
               /\ got.internalPath = puts[Len(puts)].internalPath

\* C15 witness: a path was stored twice under different tags; the lookup with
\* the new tag hits and the lookup with the old tag finds the row.
C15_Witness ==
    \E path \in 1..MaxCacheKey :
        LET puts == SelectSeq(previewPuts, LAMBDA p : p.path = path)
        IN /\ Len(puts) >= 2
           /\ puts[1].modTime # puts[Len(puts)].modTime
           /\ puts[1].internalPath # puts[Len(puts)].internalPath
           /\ GetPreviewPath(path, puts[Len(puts)].modTime, TRUE).found
           /\ ~GetPreviewPath(path, puts[1].modTime, TRUE).found

\* C16: the scan fingerprint does not depend on the input order: for any file
\* list and any permutation of it CalculateFingerprint returns the same
\* fingerprint.
C16_FingerprintOrderFree ==
    callFn = "CalculateFingerprint" =>
        \A perm \in Permutations(1..Len(callArg)) :
            CalculateFingerprint([i \in 1..Len(callArg) |-> callArg[perm[i]]]) = callRet

\* C16 witness: the fingerprint of three files was computed, given out of
\* path order and with different modification times.
C16_Witness ==
    /\ callFn = "CalculateFingerprint"
    /\ Len(callArg) >= 3
    /\ callArg[1].path > callArg[2].path
    /\ callArg[1].modTime # callArg[2].modTime
    /\ Len(callRet) = 2 * Len(callArg)

(***************************************************************************)
(* Claims about visual clustering                                          *)
(***************************************************************************)
\* C17: running without a cache gives the same analysis results as running
\* with one: for the same files the visual groups produced with a nil cache
\* equal those produced with a working cache.
C17_SameGroupsWithoutCache ==
    callFn = "FindVisualDuplicates" =>
        callRet = FindVisualDuplicates(callArg.files, TRUE, callArg.hashable)

\* C18: FindVisualDuplicates is exactly the greedy seed-based pass over the
\* files that have a cached hash, in input order: every cluster has two or
\* more members, all with a cached hash; no file is in two clusters; every
\* member is within Hamming distance 8 of the seed, the first file of its
\* cluster; and a file within distance 8 of an earlier file that is no member
\* of another seed's cluster belongs to the cluster of that file or of an
\* earlier seed.
C18_GreedySeedClusters ==
    (callFn = "FindVisualDuplicates" /\ callArg.cache) =>
        LET hashed == callArg.files \cap callArg.hashable
            Seed(g) == CHOOSE s \in g : \A f \in g : s <= f
            Near(f, h) == CalculateHammingDistance(SrvPHash(f), SrvPHash(h)) <= 8
            seeds == hashed \ UNION {g \ {Seed(g)} : g \in callRet}
        IN /\ \A g \in callRet : Cardinality(g) >= 2 /\ g \subseteq hashed
           /\ \A g, h \in callRet : g # h => g \cap h = {}
           /\ \A g \in callRet : \A f \in g : Near(Seed(g), f)
           /\ \A s \in seeds, f \in hashed :
                  (s < f /\ Near(s, f)) =>
                      \E g \in callRet : f \in g /\ Seed(g) <= s

\* C18 witness: three files with a cached hash were clustered; the third is
\* within distance 8 of the second but not of the first, the seed, and stays
\* outside the cluster.
C18_Witness ==
    /\ callFn = "FindVisualDuplicates"
    /\ callArg.cache
    /\ callArg.hashable = {1, 2, 3}
    /\ CalculateHammingDistance(SrvPHash(2), SrvPHash(3)) <= 8
    /\ CalculateHammingDistance(SrvPHash(1), SrvPHash(3)) > 8
    /\ callRet = {{1, 2}}

(***************************************************************************)
(* Claims about the name score                                             *)
(***************************************************************************)
\* C19: the name-similarity score is symmetric: for all file names a and b,
\* CalculateNameSimilarity(a, b) equals CalculateNameSimilarity(b, a).
C19_ScoreSymmetric ==
    callFn = "CalculateNameSimilarity" =>
        callRet = CalculateNameSimilarity(callArg[2], callArg[1])

\* C19 witness: two names whose normalised forms differ in length and in
\* content were scored, and the score lies strictly between 0 and 100.
C19_Witness ==
    /\ callFn = "CalculateNameSimilarity"
    /\ Len(normalizeFilename(callArg[1])) = 4
    /\ Len(normalizeFilename(callArg[2])) = 2
    /\ jaroSimilarity(normalizeFilename(callArg[1]), normalizeFilename(callArg[2]))[1] > 0
    /\ callRet > 0
    /\ callRet < 1000

\* C20: the score of "Report_v2" and "Report_v3", two names that differ only
\* in their version token, exceeds 90.
C20_VersionPairAbove90 ==
    (/\ callFn = "CalculateNameSimilarity"
     /\ callArg = << <<"R", "e", "p", "o", "r", "t", "_", "v", "2">>,
                     <<"R", "e", "p", "o", "r", "t", "_", "v", "3">> >>) =>
        callRet > 900

\* C21: the length-ratio gate of the bulk pairwise search is a pure
\* prefilter: a pair of files of different sizes is rejected by the gate
\* exactly when the lengths of the two normalised names differ by more than
\* 2.5 : 1 (the longer is more than 2.5 times the shorter), so the pair is
\* reported exactly when it is not so and its score reaches the threshold,
\* and every reported pair carries the score CalculateNameSimilarity gives
\* the two names.
C21_GateIsPurePrefilter ==
    callFn = "FindSimilarNames" =>
        LET files == callArg[1]
            len1 == Len(normalizeFilename(files[1].name))
            len2 == Len(normalizeFilename(files[2].name))
            longer == IF len1 > len2 THEN len1 ELSE len2
            shorter == IF len1 > len2 THEN len2 ELSE len1
            Score == CalculateNameSimilarity(files[1].name, files[2].name)
        IN /\ files[1].size # files[2].size =>
                  ((callRet # {}) <=> (~(10 * longer > 25 * shorter) /\ Score >= 10 * callArg[2]))
           /\ \A p \in callRet :
                  p.similarity = CalculateNameSimilarity(files[p.file1].name, files[p.file2].name)

\* C22: mesh round trip: every well-formed binary payload (80 header bytes,
\* the count T, then T triangle records), whatever its header bytes, parses
\* as binary to an info with TriangleCount = T and VertexCount = 3T.
C22_BinaryRoundTrip ==
    (/\ callFn = "parseSTL"
     /\ callArg[1].layout = "binary"
     /\ Len(callArg[1].triangles) = callArg[1].count) =>
        /\ callRet.err = "nil"
        /\ callRet.IsBinary
        /\ callRet.TriangleCount = callArg[1].count
        /\ callRet.VertexCount = 3 * callArg[1].count

\* C23: in binary parsing, a payload whose length differs from 84 + 50 * T
\* for the declared count T, shorter or longer, gives a parse error and no
\* info.
C23_LengthMismatchIsError ==
    (/\ callFn = "parseSTL"
     /\ callArg[1].layout = "binary"
     /\ isBinarySTL(callArg[1])
     /\ Len(callArg[1].triangles) # callArg[1].count) =>
        callRet.err # "nil"

\* C24: CompareSTL classifies every pair of payloads by the table: the same
\* bytes are identical without a parse; else, if either side is unparsable
\* (read as binary, its length is not 84 + 50 * T), the diff has no counts
\* and the fallback description; else equal counts and equal bounds is
\* "minor modification", equal counts and different bounds "transformed",
\* a larger second count "expanded", a smaller one "simplified", with the
\* suffix ", dimensions changed" exactly when the bounds differ too.
C24_CompareClassifies ==
    callFn = "CompareSTL" =>
        LET unparsable(d) ==
                isBinarySTL(d) /\ (d.layout = "text" \/ Len(d.triangles) # d.count)
            info1 == parseSTL(callArg[1])
            info2 == parseSTL(callArg[2])
            sameBounds ==
                \A f \in {"MinX", "MaxX", "MinY", "MaxY", "MinZ", "MaxZ"} :
                    /\ info1.Bounds[f] - info2.Bounds[f] < 2
                    /\ info2.Bounds[f] - info1.Bounds[f] < 2
            delta == info2.TriangleCount - info1.TriangleCount
        IN IF callArg[1] = callArg[2]
           THEN callRet.identical /\ callRet.diff = "nil"
           ELSE IF unparsable(callArg[1]) \/ unparsable(callArg[2])
                THEN /\ ~callRet.identical
                     /\ callRet.diff.Triangles1 = 0 /\ callRet.diff.Triangles2 = 0
                     /\ callRet.diff.Vertices1 = 0 /\ callRet.diff.Vertices2 = 0
                     /\ callRet.diff.Description = <<"Unable to parse STL format">>
           ELSE /\ ~callRet.identical
                /\ callRet.diff.Triangles1 = info1.TriangleCount
                /\ callRet.diff.Triangles2 = info2.TriangleCount
                /\ callRet.diff.Vertices1 = info1.VertexCount
                /\ callRet.diff.Vertices2 = info2.VertexCount
                /\ delta = 0 /\ sameBounds =>
                       callRet.diff.Description[1] =
                           "Minor modifications (same structure, different vertex data)"
                /\ delta = 0 /\ ~sameBounds =>
                       callRet.diff.Description[1] =
                           "Geometry transformed (same triangle count, different dimensions)"
                /\ delta > 0 =>
                       /\ callRet.diff.Description[1] = "Geometry expanded"
                       /\ callRet.diff.Description[2] = delta
                /\ delta < 0 =>
                       /\ callRet.diff.Description[1] = "Geometry simplified"
                       /\ callRet.diff.Description[2] = delta
                /\ delta # 0 =>
                       (callRet.diff.Description[3] = ", dimensions changed" <=> ~sameBounds)

(***************************************************************************)
(* Claims about the analyses of the dashboard server                      *)
(***************************************************************************)
\* C25: at most one analysis of each kind runs at a time: under any
\* interleaving of start-scan, run-step-3 and run-visual requests there are
\* never two full scans, two Step 3 passes or two visual passes in progress
\* (past their first locked section) together.
C25_OneAnalysisOfEachKind ==
    \A kind \in {"scan", "step3", "visual"} :
        LET running == {j \in BagToSet(srvJobs) : j.kind = kind /\ j.pc # "begin"}
        IN /\ Cardinality(running) <= 1
           /\ \A j \in running : CopiesIn(j, srvJobs) <= 1

\* C26: the status of the report reads "finished" only when no analysis is
\* running: while a full scan, a Step 3 pass or a visual pass is past its
\* first locked section and has not returned, the status is not "finished".
C26_FinishedMeansIdle ==
    (/\ srvFault = "none"
     /\ \E j \in BagToSet(srvJobs) : j.pc # "begin") =>
        srvReport.status # "finished"

\* C27: a reset never leads to a fault: no analysis in flight or started
\* later dereferences the report that POST /api/reset cleared.  (An analysis
\* runs only once a report exists, so a nil report under RunStep3, RunVisual
\* or performFullScan is one that a reset cleared.)
C27_ResetNeverFaults == srvFault \notin {"RunStep3", "RunVisual", "performFullScan"}

\* C28: after a successful dashboard delete of path p, p is a member of no
\* group the server reports (size, similarity, visual) and is not in the
\* all-files list.
C28_DeletedPathGone ==
    [][(srvDisk' # srvDisk /\ srvFault' = "none") =>
           \A p \in srvDisk \ srvDisk' :
               /\ p \notin srvAllFiles'
               /\ \A g \in srvReport'.size \cup srvReport'.similar \cup srvReport'.visual :
                      p \notin g]_vars

\* C29: a started visual analysis always completes: once RunVisual has taken
\* the status, the status becomes "finished" in the end, and when RunVisual
\* sets it the visual groups of the report are those computed from every
\* hash the hashing pass stored.
C29_VisualCompletes ==
    /\ (JobsAt("visual", "walk") # {}) ~> (srvReport.status = "finished")
    /\ [][\A j \in JobsAt("visual", "hash") :
              srvJobs' = Moved(j, [j EXCEPT !.pc = "finish"]) =>
                  srvReport'.visual = FindVisualDuplicates(j.snap, srvCfg.cache, srvHashes)]_vars

\* C30: FindSimilarNames always terminates, for any file list and worker
\* count: every worker finishes (none waits forever to send on pairsChan)
\* and the function returns; the channel is closed only after every worker
\* has finished; nothing is sent on it after it is closed; and each
\* unordered pair of files is reported at most once.
C30_AlwaysTerminates ==
    /\ <>(\A w \in NameWorkers : nmPos[w] = <<0, 0>>)
    /\ <>nmReturned
    /\ [](nmClosed => \A w \in NameWorkers : nmPos[w] = <<0, 0>>)
    /\ [][nmClosed => Len(nmChan') <= Len(nmChan)]_vars
    /\ [](LET reported == nmPairs \o nmChan
          IN \A m, n \in 1..Len(reported) :
                 m # n => {reported[m][1], reported[m][2]} # {reported[n][1], reported[n][2]})

\* C30 witness: with as many workers as runtime.NumCPU() allows at most, all
\* of them have finished, the channel is closed and drained, and the
\* function has returned two pairs.
C30_Witness ==
    /\ nmWorkers = MaxCPUs
    /\ nmReturned
    /\ nmClosed
    /\ nmChan = <<>>
    /\ Len(nmPairs) = 2

====
